---- MODULE Spec2Model ----
(***************************************************************************)
(* Model of src/app.py: the /assistant pipeline (query synthesis, repair,  *)
(* validation, store query, answer synthesis, language normalisation).     *)
(*                                                                         *)
(* Texts are sequences of one-character strings, so that trimming, upper-  *)
(* casing, prefix tests and the regular-expression substitutions of the    *)
(* repair engine are computed character by character, as the code does.    *)
(***************************************************************************)
EXTENDS Integers, Sequences, FiniteSets, TLC

(***************************************************************************)
(* Text layer.                                                             *)
(***************************************************************************)

\* Characters matched by \s in Python's re (those of the model's alphabet).
Whitespace == {" ", "\t", "\n", "\r"}

LowerLetters ==
    <<"a","b","c","d","e","f","g","h","i","j","k","l","m",
      "n","o","p","q","r","s","t","u","v","w","x","y","z">>

UpperLetters ==
    <<"A","B","C","D","E","F","G","H","I","J","K","L","M",
      "N","O","P","Q","R","S","T","U","V","W","X","Y","Z">>

Digits == {"0","1","2","3","4","5","6","7","8","9"}

\* Characters matched by \w in Python's re (those of the model's alphabet).
WordChars ==
    {LowerLetters[i] : i \in 1..26} \cup {UpperLetters[i] : i \in 1..26}
        \cup Digits \cup {"_"}

\* str.upper() on one character.
UpperChar(c) ==
    IF \E i \in 1..26 : LowerLetters[i] = c
    THEN UpperLetters[CHOOSE i \in 1..26 : LowerLetters[i] = c]
    ELSE c

\* str.upper()
Upper(s) == [i \in 1..Len(s) |-> UpperChar(s[i])]

\* s[i:].startswith(w)
MatchAt(s, i, w) ==
    /\ i >= 1
    /\ i + Len(w) - 1 <= Len(s)
    /\ \A k \in 1..Len(w) : s[i + k - 1] = w[k]

\* Same, ignoring letter case (re.IGNORECASE); w is in upper case.
MatchAtIgnoreCase(s, i, w) ==
    /\ i >= 1
    /\ i + Len(w) - 1 <= Len(s)
    /\ \A k \in 1..Len(w) : UpperChar(s[i + k - 1]) = w[k]

\* str.startswith
StartsWith(s, w) == MatchAt(s, 1, w)

\* w in s
Contains(s, w) == \E i \in 1..(Len(s) + 1) : MatchAt(s, i, w)

\* Last index of the longest run of characters of C that starts at i
\* (i - 1 when s[i] is not in C): what a greedy C+ or C* consumes.
RunEnd(s, i, C) ==
    CHOOSE j \in (i - 1)..Len(s) :
        /\ \A k \in i..j : s[k] \in C
        /\ j = Len(s) \/ s[j + 1] \notin C

\* str.strip()
Strip(s) ==
    LET keep == {i \in 1..Len(s) : s[i] \notin Whitespace}
    IN  IF keep = {} THEN <<>>
        ELSE SubSeq(s, CHOOSE i \in keep : \A j \in keep : i <= j,
                       CHOOSE i \in keep : \A j \in keep : i >= j)

\* Smallest element of a non-empty set of integers.
Min(S) == CHOOSE m \in S : \A n \in S : m <= n

\* str.replace(old, new), left to right, non-overlapping (old non-empty).
RECURSIVE ReplaceFrom(_, _, _, _)
ReplaceFrom(s, i, old, new) ==
    LET hits == {j \in i..Len(s) : MatchAt(s, j, old)}
    IN  IF hits = {} THEN SubSeq(s, i, Len(s))
        ELSE LET j == Min(hits)
             IN  SubSeq(s, i, j - 1) \o new
                     \o ReplaceFrom(s, j + Len(old), old, new)

Replace(s, old, new) == ReplaceFrom(s, 1, old, new)

\* re.sub(r'\s+', ' ', s)
RECURSIVE CollapseFrom(_, _)
CollapseFrom(s, i) ==
    LET hits == {j \in i..Len(s) : s[j] \in Whitespace}
    IN  IF hits = {} THEN SubSeq(s, i, Len(s))
        ELSE LET j == Min(hits)
             IN  SubSeq(s, i, j - 1) \o <<" ">>
                     \o CollapseFrom(s, RunEnd(s, j, Whitespace) + 1)

\* re.sub(r'\s+', ' ', s).strip()
CollapseWhitespace(s) == Strip(CollapseFrom(s, 1))

(***************************************************************************)
(* Query Repair Engine: correct_sparql_syntax_advanced.                    *)
(***************************************************************************)

kwSELECT == <<"S","E","L","E","C","T">>
kwWHERE == <<"W","H","E","R","E">>
nsProgettoMuseo == <<"p","r","o","g","e","t","t","o","M","u","s","e","o",":">>

\* 'PREFIX progettoMuseo:'
PrefixKey == <<"P","R","E","F","I","X"," ">> \o nsProgettoMuseo

\* The declaration prepended by step 2, with its trailing space.
PrefixDeclaration ==
    <<"P","R","E","F","I","X"," ","p","r","o","g","e","t","t","o","M","u","s","e","o",":"," ","<",
      "h","t","t","p",":","/","/","w","w","w",".","s","e","m","a","n","t","i","c","w","e","b",".",
      "o","r","g","/","l","u","c","r","e","z","i","a","m","o","s","c","a","/","o","n","t","o","l",
      "o","g","i","e","s","/","p","r","o","g","e","t","t","o","M","u","s","e","o","#",">"," ">>

\* 1) query.replace('\n', ' ').replace('\r', ' ')
RemoveNewlines(q) == Replace(Replace(q, <<"\n">>, <<" ">>), <<"\r">>, <<" ">>)

\* 2) prepend the declaration when 'PREFIX progettoMuseo:' is not in query
AddPrefix(q) == IF ~Contains(q, PrefixKey) THEN PrefixDeclaration \o q ELSE q

\* 3) re.sub(r'(SELECT)(\?|\*)', r'\1 \2', query, flags=re.IGNORECASE)
SelectGlued(q, j) ==
    /\ MatchAtIgnoreCase(q, j, kwSELECT)
    /\ j + 6 <= Len(q)
    /\ q[j + 6] \in {"?", "*"}

RECURSIVE SpaceAfterSelectFrom(_, _)
SpaceAfterSelectFrom(q, i) ==
    LET hits == {j \in i..Len(q) : SelectGlued(q, j)}
    IN  IF hits = {} THEN SubSeq(q, i, Len(q))
        ELSE LET j == Min(hits)
             IN  SubSeq(q, i, j + 5) \o <<" ", q[j + 6]>>
                     \o SpaceAfterSelectFrom(q, j + 7)

SpaceAfterSelect(q) == SpaceAfterSelectFrom(q, 1)

\* 4) re.sub(r'(WHERE)\{', r'\1 {', query, flags=re.IGNORECASE)
WhereGlued(q, j) ==
    /\ MatchAtIgnoreCase(q, j, kwWHERE)
    /\ j + 5 <= Len(q)
    /\ q[j + 5] = "{"

RECURSIVE SpaceAfterWhereFrom(_, _)
SpaceAfterWhereFrom(q, i) ==
    LET hits == {j \in i..Len(q) : WhereGlued(q, j)}
    IN  IF hits = {} THEN SubSeq(q, i, Len(q))
        ELSE LET j == Min(hits)
             IN  SubSeq(q, i, j + 4) \o <<" ", "{">>
                     \o SpaceAfterWhereFrom(q, j + 6)

SpaceAfterWhere(q) == SpaceAfterWhereFrom(q, 1)

\* 5) re.sub(r'(progettoMuseo:\w+)\?(\w+)', r'\1 ?\2', query)
\* \w+ is greedy and '?' is not a word character, so the first group ends
\* where the run of word characters ends.
PropertyEnd(q, j) == RunEnd(q, j + Len(nsProgettoMuseo), WordChars)

PropertyGlued(q, j) ==
    /\ MatchAt(q, j, nsProgettoMuseo)
    /\ PropertyEnd(q, j) >= j + Len(nsProgettoMuseo)
    /\ PropertyEnd(q, j) + 1 <= Len(q)
    /\ q[PropertyEnd(q, j) + 1] = "?"
    /\ RunEnd(q, PropertyEnd(q, j) + 2, WordChars) >= PropertyEnd(q, j) + 2

RECURSIVE UnglueVariableFrom(_, _)
UnglueVariableFrom(q, i) ==
    LET hits == {j \in i..Len(q) : PropertyGlued(q, j)}
    IN  IF hits = {} THEN SubSeq(q, i, Len(q))
        ELSE LET j == Min(hits)
                 e1 == PropertyEnd(q, j)
                 e2 == RunEnd(q, e1 + 2, WordChars)
             IN  SubSeq(q, i, e1) \o <<" ">> \o SubSeq(q, e1 + 1, e2)
                     \o UnglueVariableFrom(q, e2 + 1)

UnglueVariable(q) == UnglueVariableFrom(q, 1)

\* 7) re.sub(r'(\?\w+)\s*\}', r'\1 . }', query)
VariableEnd(q, j) == RunEnd(q, j + 1, WordChars)

\* Index of the '}' that closes a match starting at j.
ClosingBrace(q, j) == RunEnd(q, VariableEnd(q, j) + 1, Whitespace) + 1

VariableBeforeBrace(q, j) ==
    /\ q[j] = "?"
    /\ VariableEnd(q, j) >= j + 1
    /\ ClosingBrace(q, j) <= Len(q)
    /\ q[ClosingBrace(q, j)] = "}"

RECURSIVE AddTerminatorFrom(_, _)
AddTerminatorFrom(q, i) ==
    LET hits == {j \in i..Len(q) : VariableBeforeBrace(q, j)}
    IN  IF hits = {} THEN SubSeq(q, i, Len(q))
        ELSE LET j == Min(hits)
             IN  SubSeq(q, i, VariableEnd(q, j)) \o <<" ", ".", " ", "}">>
                     \o AddTerminatorFrom(q, ClosingBrace(q, j) + 1)

AddTerminator(q) == AddTerminatorFrom(q, 1)

\* Index of the first '{' at or after i (Len(q) + 1 when there is none).
FirstBrace(q, i) == RunEnd(q, i, {q[k] : k \in 1..Len(q)} \ {"{"}) + 1

\* 8) re.sub(r'(SELECT\s+[^\{]+)\{', r'\1 WHERE {', query, flags=re.IGNORECASE)
\* A match at j needs SELECT, a white space, and at least one more
\* character before the first '{' (\s+ gives characters back to [^\{]+).
SelectBeforeBrace(q, j) ==
    /\ MatchAtIgnoreCase(q, j, kwSELECT)
    /\ FirstBrace(q, j + 6) <= Len(q)
    /\ q[j + 6] \in Whitespace
    /\ FirstBrace(q, j + 6) >= j + 8

RECURSIVE InsertWhereFrom(_, _)
InsertWhereFrom(q, i) ==
    LET hits == {j \in i..Len(q) : SelectBeforeBrace(q, j)}
    IN  IF hits = {} THEN SubSeq(q, i, Len(q))
        ELSE LET b == FirstBrace(q, Min(hits) + 6)
             IN  SubSeq(q, i, b - 1) \o <<" ">> \o kwWHERE \o <<" ", "{">>
                     \o InsertWhereFrom(q, b + 1)

\* 8) the guard: 'WHERE' not in query.upper()
AddWhere(q) ==
    IF ~Contains(Upper(q), kwWHERE) THEN InsertWhereFrom(q, 1) ELSE q

correct_sparql_syntax_advanced(query) ==
    LET s1 == RemoveNewlines(query)
        s2 == AddPrefix(s1)
        s3 == SpaceAfterSelect(s2)
        s4 == SpaceAfterWhere(s3)
        s5 == UnglueVariable(s4)
        s6 == CollapseWhitespace(s5)
        s7 == AddTerminator(s6)
        s8 == AddWhere(s7)
    IN  CollapseWhitespace(s8)

(***************************************************************************)
(* Values of the /assistant pipeline.                                      *)
(***************************************************************************)

\* An optional text: Python's None, or a str.
None == [present |-> FALSE, text |-> <<>>]

Some(t) == [present |-> TRUE, text |-> t]

\* Faulty variant of Truthy: the guard on generated_query is dropped.
Truthy_always(q) == TRUE

\* Truth value of an optional text in an 'if': None and '' are false.
Truthy(q) == q.present /\ q.text /= <<>>

\* Defaults of AssistantRequest; temperatures are in tenths.
DefaultMaxTokens == 512
DefaultTemperature == 5

\* Arguments of the query-phase call to the generation service.
QueryMaxTokens == 512
QueryTemperature == 2

\* Arguments of the answer-phase call to the generation service.
AnswerMaxTokens == 512
AnswerTemperature == 5

\* A field of the request body: omitted, or given with a value.
Omitted == [given |-> FALSE, value |-> 0]

Given(v) == [given |-> TRUE, value |-> v]

\* Field of AssistantRequest with a default.
FieldOrDefault(field, default) == IF field.given THEN field.value ELSE default

HF_MODEL == "meta-llama/Llama-3.3-70B-Instruct"
LANG_DETECT_MODEL == "papluca/xlm-roberta-base-language-detection"

NO_SPARQL == <<"N","O","_","S","P","A","R","Q","L">>

TRANSLATOR_MODEL_PREFIX ==
    <<"H","e","l","s","i","n","k","i","-","N","L","P","/","o","p","u","s","-","m","t">>

\* Fallback labels of the two language detections.
QuestionLangFallback == <<"e","n">>

\* Faulty variant of AnswerLangFallback: the fallback of the question.
AnswerLangFallback_same == <<"e","n">>

AnswerLangFallback == <<"i","t">>

\* Faulty variant of SameLanguage: the answer is always translated.
SameLanguage_never(q_lang, a_lang) == FALSE

\* question_lang == answer_lang
SameLanguage(q_lang, a_lang) == q_lang = a_lang

\* User content of the answer-phase call: "Fornisci la risposta finale."
FinalUserMessage ==
    <<"F","o","r","n","i","s","c","i"," ","l","a"," ","r","i","s","p","o","s","t","a"," ","f","i",
      "n","a","l","e",".">>

\* create_system_prompt_for_sparql: the instructions with the ontology in them.
create_system_prompt_for_sparql(ontology) ==
    [kind |-> "sparql", ontology |-> ontology]

\* create_system_prompt_for_guide: a fixed text.
create_system_prompt_for_guide == "guide"

\* is_sparql_query_valid: True iff parseQuery did not raise.
is_sparql_query_valid(parse_ok) == parse_ok

\* Faulty variant of TranslatorModel: the pair in the opposite order.
TranslatorModel_reversed(a_lang, q_lang) ==
    TRANSLATOR_MODEL_PREFIX \o <<"-">> \o q_lang \o <<"-">> \o a_lang

\* f"{TRANSLATOR_MODEL_PREFIX}-{answer_lang}-{question_lang}"
TranslatorModel(a_lang, q_lang) ==
    TRANSLATOR_MODEL_PREFIX \o <<"-">> \o a_lang \o <<"-">> \o q_lang

(***************************************************************************)
(* Result rows and the location point.                                     *)
(***************************************************************************)

\* A row maps its labels (the projected variables) to terms; a term is
\* None (unbound) or has a string form.
Unbound == [bound |-> FALSE, str |-> <<>>]

Term(t) == [bound |-> TRUE, str |-> t]

\* Faulty variant of HasPoint: a blank value counts as a point.
HasPoint_blankAccepted(row, var) ==
    /\ var \in DOMAIN row
    /\ row[var].bound

\* "p" in row.labels and row["p"] is not None and str(row["p"]).strip() != ""
HasPoint(row, var) ==
    /\ var \in DOMAIN row
    /\ row[var].bound
    /\ Strip(row[var].str) /= <<>>

\* Faulty variant of ExtractPointFrom: "posizione" is tested before "p".
RECURSIVE ExtractPointFrom_posizioneFirst(_, _)
ExtractPointFrom_posizioneFirst(rows, i) ==
    IF i > Len(rows) THEN <<>>
    ELSE IF HasPoint(rows[i], "posizione") THEN Strip(rows[i]["posizione"].str)
    ELSE IF HasPoint(rows[i], "p") THEN Strip(rows[i]["p"].str)
    ELSE ExtractPointFrom_posizioneFirst(rows, i + 1)

\* The for loop over results with its two breaks, started at row i with
\* point still "".
RECURSIVE ExtractPointFrom(_, _)
ExtractPointFrom(rows, i) ==
    IF i > Len(rows) THEN <<>>
    ELSE IF HasPoint(rows[i], "p") THEN Strip(rows[i]["p"].str)
    ELSE IF HasPoint(rows[i], "posizione") THEN Strip(rows[i]["posizione"].str)
    ELSE ExtractPointFrom(rows, i + 1)

\* Faulty variant of ExtractPoint: one pass for "p" over all the rows, then
\* one for "posizione".
ExtractPoint_twoPasses(rows) ==
    LET ps == {i \in 1..Len(rows) : HasPoint(rows[i], "p")}
        qs == {i \in 1..Len(rows) : HasPoint(rows[i], "posizione")}
    IN  IF ps /= {} THEN Strip(rows[Min(ps)]["p"].str)
        ELSE IF qs /= {} THEN Strip(rows[Min(qs)]["posizione"].str)
        ELSE <<>>

ExtractPoint(rows) == ExtractPointFrom(rows, 1)

\* Faulty variant of PromptVariant: the second branch tests the rows only.
PromptVariant_rowsOnly(query, rows) ==
    IF Truthy(query) /\ rows /= <<>> THEN "results"
    ELSE IF rows = <<>> THEN "no_results"
    ELSE "no_query"

\* Which of the three answer prompts is built.
PromptVariant(query, rows) ==
    IF Truthy(query) /\ rows /= <<>> THEN "results"
    ELSE IF Truthy(query) /\ rows = <<>> THEN "no_results"
    ELSE "no_query"

\* second_prompt: the guide prompt (kind) followed by the question and, per
\* variant, the query and the rows.
SecondPrompt(message, query, rows) ==
    [kind |-> create_system_prompt_for_guide,
     variant |-> PromptVariant(query, rows),
     user_message |-> message,
     query |-> IF PromptVariant(query, rows) = "no_query" THEN None ELSE query,
     results |-> IF PromptVariant(query, rows) = "results" THEN rows ELSE <<>>]

\* Faulty variant of StripQuotes: only the plain double quotes are removed.
StripQuotes_plainOnly(t) == Replace(t, <<"\"">>, <<>>)

\* final_ans.replace('\\"', "").replace('\"', "")
StripQuotes(t) == Replace(Replace(t, <<"\\", "\"">>, <<>>), <<"\"">>, <<>>)

\* query_str of query_stanze_endpoint.
StanzeQuery ==
    PrefixDeclaration \o
      <<"S","E","L","E","C","T"," ","?","s","t","a","n","z","a"," ","?","o",
        "p","e","r","a"," ","?","p"," ","W","H","E","R","E"," ","{"," ","?",
        "o","p","e","r","a"," ","p","r","o","g","e","t","t","o","M","u","s",
        "e","o",":","è","E","s","p","o","s","t","o"," ","?","s","t","a","n",
        "z","a","."," ","O","P","T","I","O","N","A","L"," ","{"," ","?","o",
        "p","e","r","a"," ","p","r","o","g","e","t","t","o","M","u","s","e",
        "o",":","p","o","s","i","z","i","o","n","e","O","p","e","r","a"," ",
        "?","p","."," ","}"," ","}">>

\* uri.split("#")[-1]
AfterLastHash(uri) ==
    LET hashes == {i \in 1..Len(uri) : uri[i] = "#"}
        last == CHOOSE i \in hashes : \A j \in hashes : j <= i
    IN  SubSeq(uri, last + 1, Len(uri))

\* Faulty variant of LocalName: the text between the first two '#'.
LocalName_firstHash(uri) ==
    IF Contains(uri, <<"#">>)
    THEN LET rest == SubSeq(uri, Min({i \in 1..Len(uri) : uri[i] = "#"}) + 1,
                            Len(uri))
         IN  IF Contains(rest, <<"#">>)
             THEN Strip(SubSeq(rest, 1,
                        Min({i \in 1..Len(rest) : rest[i] = "#"}) - 1))
             ELSE Strip(rest)
    ELSE uri

\* uri.split("#")[-1].strip() if "#" in uri else uri
LocalName(uri) ==
    IF Contains(uri, <<"#">>) THEN Strip(AfterLastHash(uri)) ELSE uri

\* str(row["p"]) if row["p"] is not None else ""
Punto(row) == IF row["p"].bound THEN row["p"].str ELSE <<>>

\* What one row adds to temp_dict, kept as the list of its items in order of
\* insertion: a new group, or one more entry of the group of its room.
AddToRoom(groups, row) ==
    LET stanza_local == LocalName(row["stanza"])
        opera_dict == [nome |-> LocalName(row["opera"]), punto |-> Punto(row)]
        found == {k \in 1..Len(groups) : groups[k].roomName = stanza_local}
    IN  IF found = {}
        THEN Append(groups, [roomName |-> stanza_local,
                             entries |-> <<opera_dict>>])
        ELSE [k \in 1..Len(groups) |->
                 IF k \in found
                 THEN [groups[k] EXCEPT !.entries = Append(@, opera_dict)]
                 ELSE groups[k]]

\* The loop over query_result, from row i on.
RECURSIVE GroupRowsFrom(_, _, _)
GroupRowsFrom(rows, i, groups) ==
    IF i > Len(rows) THEN groups
    ELSE GroupRowsFrom(rows, i + 1, AddToRoom(groups, rows[i]))

GroupRows(rows) == GroupRowsFrom(rows, 1, <<>>)

(***************************************************************************)
(* Bounds and the replies of the collaborators.                            *)
(***************************************************************************)

NumRequests == 2
MaxRows == 1

Requests == 1..NumRequests

Messages == {<<"C","h","i","?">>}

\* Request bodies: only the message, or all three fields.
Bodies ==
    [message : Messages, max_tokens : {Omitted}, temperature : {Omitted}]
        \cup
    [message : Messages, max_tokens : {Given(64)}, temperature : {Given(9)}]

OntologyText == <<"<","r","d","f",">">>

ContentGlued ==
    <<"S","E","L","E","C","T","?","a","{","?","a"," ","p","r","o","g","e","t","t","o","M","u","s",
      "e","o",":","a","u","t","o","r","e","O","p","e","r","a","?","b","}">>

ContentClean ==
    PrefixDeclaration \o
    <<"S","E","L","E","C","T"," ","?","p"," ","W","H","E","R","E"," ","{"," ","p","r","o","g","e",
      "t","t","o","M","u","s","e","o",":","D","a","v","i","d"," ","p","r","o","g","e","t","t","o",
      "M","u","s","e","o",":","p","o","s","i","z","i","o","n","e","O","p","e","r","a"," ","?","p",
      " ","."," ","}">>

ContentSentinelTrailing ==
    <<"\n","n","o","_","s","p","a","r","q","l",":"," ","f","u","o","r","i"," ","t","e","m","a"," ">>

\* Texts the generation service may return in the query phase.
QueryContents ==
    {NO_SPARQL, ContentSentinelTrailing, ContentGlued, ContentClean}

\* Texts the generation service may return in the answer phase.
AnswerContents ==
    {<<" ","I","l"," ","\"","D","a","v","i","d","\""," ">>,
     <<"n","o","n"," ","l","o"," ","s","o">>}

\* Labels the language-identification service may return.
Labels == {<<"i","t">>, <<"e","n">>, <<"f","r">>}

\* Texts the translation service may return.
Translations == {<<"I"," ","d","o","n","'","t"," ","k","n","o","w">>}

RowLabels == {"p", "posizione"}

Terms == {Unbound, Term(<<" ","A"," ">>)}

Rows == UNION {[L -> Terms] : L \in SUBSET RowLabels}

ResultSets == UNION {[1..n -> Rows] : n \in 0..MaxRows}

(***************************************************************************)
(* Result sets for the scan of the location point: row i carries its own   *)
(* values, so that the point tells which row and which variable it is from.*)
(***************************************************************************)

MaxScanRows == 2

DigitChar(i) == <<"0","1","2","3","4","5","6","7","8","9">>[i + 1]

\* What row i may bind var to: nothing, a blank, or a padded value.
ScanValues(i, var) ==
    {Unbound,
     Term(<<" ">>),
     Term(<<" ", IF var = "p" THEN "P" ELSE "Q", DigitChar(i), " ">>)}

ScanRowsAt(i) ==
    UNION {{row \in [L -> UNION {ScanValues(i, v) : v \in L}] :
                \A v \in L : row[v] \in ScanValues(i, v)} :
           L \in SUBSET RowLabels}

RECURSIVE ScanSetsOfLength(_)
ScanSetsOfLength(n) ==
    IF n = 0 THEN {<<>>}
    ELSE {Append(rows, row) :
              rows \in ScanSetsOfLength(n - 1), row \in ScanRowsAt(n)}

ScanResultSets == UNION {ScanSetsOfLength(n) : n \in 0..MaxScanRows}

(***************************************************************************)
(* State.                                                                  *)
(***************************************************************************)

\* What the collaborators may reply in a run: the request bodies, and the
\* texts, rows and labels the services return when they do not raise.
AllReplies ==
    [bodies |-> Bodies,
     query_contents |-> QueryContents,
     result_sets |-> ResultSets,
     answer_contents |-> AnswerContents,
     labels |-> Labels,
     translations |-> Translations]

\* A run in which the store may return any of the scan result sets and the
\* other collaborators have one reply each.
\* Answers made of a letter, backslashes and double quotes, up to
\* MaxAnswerLen characters, for the removal of quotes.
MaxAnswerLen == 4

QuoteChars == {"a", "\\", "\""}

QuoteTexts == UNION {[1..n -> QuoteChars] : n \in 0..MaxAnswerLen}

QuoteReplies ==
    [bodies |-> [message : Messages, max_tokens : {Omitted},
                 temperature : {Omitted}],
     query_contents |-> {NO_SPARQL},
     result_sets |-> {<<>>},
     answer_contents |-> QuoteTexts,
     labels |-> {<<"i","t">>, <<"e","n">>},
     translations |-> {<<"\"", "a", "\\", "\"", "\"">>}]

\* Query-phase replies built of up to MaxTokens pieces of query text, for
\* the repair engine.
MaxTokens == 4

RepairTokens ==
    {<<"p","r","o","g","e","t","t","o","M","u","s","e","o",":","x">>,
     <<"?","a">>, <<" ">>, <<"}">>}

RECURSIVE Flatten(_)
Flatten(ts) == IF ts = <<>> THEN <<>> ELSE Head(ts) \o Flatten(Tail(ts))

RepairInputs ==
    {Flatten(ts) : ts \in UNION {[1..n -> RepairTokens] : n \in 1..MaxTokens}}

RepairReplies ==
    [bodies |-> [message : Messages, max_tokens : {Omitted},
                 temperature : {Omitted}],
     query_contents |-> RepairInputs,
     result_sets |-> {<<>>},
     answer_contents |-> {<<"n","o","n"," ","l","o"," ","s","o">>},
     labels |-> {<<"i","t">>},
     translations |-> Translations]

\* Query-phase replies that write the prefix declaration with one space, a
\* tab or a line break, or several of them, after the PREFIX keyword.
MaxPrefixTokens == 4

PrefixName == SubSeq(PrefixDeclaration, 8, Len(PrefixDeclaration) - 1)

PrefixTokens ==
    {<<"P","R","E","F","I","X">>, <<" ">>, <<"\t">>, <<"\n">>, PrefixName}

PrefixInputs ==
    {Flatten(ts) :
        ts \in UNION {[1..n -> PrefixTokens] : n \in 1..MaxPrefixTokens}}

PrefixReplies ==
    [bodies |-> [message : Messages, max_tokens : {Omitted},
                 temperature : {Omitted}],
     query_contents |-> PrefixInputs,
     result_sets |-> {<<>>},
     answer_contents |-> {<<"n","o","n"," ","l","o"," ","s","o">>},
     labels |-> {<<"i","t">>},
     translations |-> Translations]

\* Rows of the exhibited-in query: rooms and works named with and without
\* '#', with more than one '#' and with nothing after it; positions unbound,
\* blank or given.
MaxStanzeRows == 2

StanzaIds == {<<"n","#","R">>, <<"R">>, <<"n","#","S">>}

OperaIds == {<<"n","#","D">>, <<"n","#","x","#","E">>, <<"V">>, <<"n","#">>}

StanzeRows ==
    [stanza : StanzaIds, opera : OperaIds,
     p : {Unbound, Term(<<" ">>), Term(<<"(","0",","," ","1",")">>)}]

StanzeResultSets == UNION {[1..n -> StanzeRows] : n \in 0..MaxStanzeRows}

\* Query-phase replies made of SELECT, variables, a brace and spaces, one
\* variable holding the letters of WHERE.
MaxWhereTokens == 4

WhereTokens ==
    {kwSELECT, <<"?","a">>, <<"?","n","o","w","h","e","r","e">>, <<"{">>, <<" ">>}

WhereInputs ==
    {Flatten(ts) :
        ts \in UNION {[1..n -> WhereTokens] : n \in 1..MaxWhereTokens}}

WhereReplies ==
    [bodies |-> [message : Messages, max_tokens : {Omitted},
                 temperature : {Omitted}],
     query_contents |-> WhereInputs,
     result_sets |-> {<<>>},
     answer_contents |-> {<<"n","o","n"," ","l","o"," ","s","o">>},
     labels |-> {<<"i","t">>},
     translations |-> Translations]

\* Replies for two requests in flight: one query, an empty or a one-row
\* ResultSet, one answer, one label.
ConcurrentReplies ==
    [bodies |-> [message : Messages, max_tokens : {Omitted},
                 temperature : {Omitted}],
     query_contents |-> {ContentClean},
     result_sets |-> {<<>>, <<[p |-> Term(<<" ","A"," ">>)]>>},
     answer_contents |-> {<<"n","o","n"," ","l","o"," ","s","o">>},
     labels |-> {<<"i","t">>},
     translations |-> Translations]

ScanReplies ==
    [bodies |-> [message : Messages, max_tokens : {Omitted},
                 temperature : {Omitted}],
     query_contents |-> {ContentClean},
     result_sets |-> ScanResultSets,
     answer_contents |-> {<<"n","o","n"," ","l","o"," ","s","o">>},
     labels |-> {<<"i","t">>},
     translations |-> Translations]

VARIABLES
    replies,           \* which replies are possible in this run (never changes)
    ontology_graph,    \* the store, loaded at startup
    hf_generation_client,  \* handle of the generation service
    lang_detect_client,    \* handle of the language detection service
    stanze_pc,         \* position of the request in query_stanze_endpoint
    corrected_query,   \* its repaired query
    query_result,      \* rows of its store query
    stanze_list,       \* the groups it returns
    stanze_outcome,    \* "pending", "response", "HTTPException"
    pc,                \* position of each request in assistant_endpoint
    user_message,      \* req.message
    max_tokens,        \* req.max_tokens
    temperature,       \* req.temperature
    ontology_turtle,   \* the serialized ontology
    possible_query,    \* trimmed query-phase reply, or "NO_SPARQL"
    generated_query,   \* None, or the repaired and validated query
    results,           \* rows of the store query
    point,             \* the location point
    second_prompt,     \* the answer prompt
    final_answer,      \* trimmed answer-phase reply
    question_lang,     \* label of the question
    answer_lang,       \* label of the answer
    final_ans,         \* what classify_and_translate returned
    outcome,           \* "pending", "response", "HTTPException", "Exception"
    response,          \* the returned JSON object
    calls              \* per request, the calls made so far, in order

\* The replies the collaborators may give in this run.
Replies ==
    CASE replies = "all" -> AllReplies
      [] replies = "scan" -> ScanReplies
      [] replies = "quotes" -> QuoteReplies
      [] replies = "concurrent" -> ConcurrentReplies
      [] replies = "repair" -> RepairReplies
      [] replies = "prefix" -> PrefixReplies
      [] replies = "where" -> WhereReplies

\* The state that lives as long as the process.
process_vars == <<ontology_graph, hf_generation_client, lang_detect_client>>

\* What the invocation of query_stanze_endpoint holds.
stanze_vars ==
    <<stanze_pc, corrected_query, query_result, stanze_list, stanze_outcome>>

vars ==
    <<replies, process_vars, stanze_vars, pc, user_message, max_tokens, temperature, ontology_turtle,
      possible_query, generated_query, results, point, second_prompt,
      final_answer, question_lang, answer_lang, final_ans, outcome,
      response, calls>>

\* Module startup: the two service handles are created and the ontology is
\* loaded into the store.
Startup ==
    /\ hf_generation_client = [model |-> HF_MODEL]
    /\ lang_detect_client = [model |-> LANG_DETECT_MODEL]
    /\ ontology_graph = OntologyText

\* query_stanze_endpoint has not been called yet.
StanzeStart ==
    /\ stanze_pc = "idle"
    /\ corrected_query = <<>>
    /\ query_result = <<>>
    /\ stanze_list = <<>>
    /\ stanze_outcome = "pending"

\* A call: what was called, with what, and whether it returned or raised.
Call(op, arg, ok) == [op |-> op, arg |-> arg, ok |-> ok]

NoPrompt == [kind |-> create_system_prompt_for_guide, variant |-> "none",
             user_message |-> <<>>, query |-> None, results |-> <<>>]

NoResponse == [query |-> None, response |-> <<>>, point |-> <<>>]

\* The state before any request: the first request is about to arrive.
Init ==
    /\ replies = "all"
    /\ Startup
    /\ StanzeStart
    /\ pc = [r \in Requests |-> IF r = 1 THEN "idle" ELSE "absent"]
    /\ user_message = [r \in Requests |-> <<>>]
    /\ max_tokens = [r \in Requests |-> DefaultMaxTokens]
    /\ temperature = [r \in Requests |-> DefaultTemperature]
    /\ ontology_turtle = [r \in Requests |-> <<>>]
    /\ possible_query = [r \in Requests |-> <<>>]
    /\ generated_query = [r \in Requests |-> None]
    /\ results = [r \in Requests |-> <<>>]
    /\ point = [r \in Requests |-> <<>>]
    /\ second_prompt = [r \in Requests |-> NoPrompt]
    /\ final_answer = [r \in Requests |-> <<>>]
    /\ question_lang = [r \in Requests |-> <<>>]
    /\ answer_lang = [r \in Requests |-> <<>>]
    /\ final_ans = [r \in Requests |-> <<>>]
    /\ outcome = [r \in Requests |-> "pending"]
    /\ response = [r \in Requests |-> NoResponse]
    /\ calls = [r \in Requests |-> <<>>]

(***************************************************************************)
(* Steps of assistant_endpoint, one per external call or local block.      *)
(***************************************************************************)

\* The request body is parsed into AssistantRequest and its fields are read.
Receive(r) ==
    /\ pc[r] = "idle"
    /\ \E body \in Replies.bodies :
        /\ user_message' = [user_message EXCEPT ![r] = body.message]
        /\ max_tokens' = [max_tokens EXCEPT ![r] =
                             FieldOrDefault(body.max_tokens, DefaultMaxTokens)]
        /\ temperature' = [temperature EXCEPT ![r] =
                              FieldOrDefault(body.temperature, DefaultTemperature)]
    /\ pc' = [pc EXCEPT ![r] = "serialize"]
    /\ UNCHANGED <<replies, process_vars, stanze_vars, ontology_turtle, possible_query, generated_query, results,
                   point, second_prompt, final_answer, question_lang,
                   answer_lang, final_ans, outcome, response, calls>>

\* Faulty variant of Serialize: a failure of the serialization ends the
\* request.
Serialize_fatal(r) ==
    /\ pc[r] = "serialize"
    /\ \E ok \in BOOLEAN :
        /\ ontology_turtle' = [ontology_turtle EXCEPT ![r] =
                                  IF ok THEN ontology_graph ELSE <<>>]
        /\ calls' = [calls EXCEPT ![r] = Append(@, Call("serialize", <<>>, ok))]
        /\ pc' = [pc EXCEPT ![r] = IF ok THEN "generate_query" ELSE "done"]
        /\ outcome' = [outcome EXCEPT ![r] = IF ok THEN @ ELSE "Exception"]
    /\ UNCHANGED <<replies, process_vars, stanze_vars, user_message,
                   max_tokens, temperature, possible_query, generated_query,
                   results, point, second_prompt, final_answer,
                   question_lang, answer_lang, final_ans, response>>

\* ontology_graph.serialize(format="xml"), "" when it raises.
Serialize(r) ==
    /\ pc[r] = "serialize"
    /\ \E ok \in BOOLEAN :
        /\ ontology_turtle' = [ontology_turtle EXCEPT ![r] =
                                  IF ok THEN ontology_graph ELSE <<>>]
        /\ calls' = [calls EXCEPT ![r] = Append(@, Call("serialize", <<>>, ok))]
    /\ pc' = [pc EXCEPT ![r] = "generate_query"]
    /\ UNCHANGED <<replies, process_vars, stanze_vars, user_message, max_tokens, temperature, possible_query,
                   generated_query, results, point, second_prompt,
                   final_answer, question_lang, answer_lang, final_ans,
                   outcome, response>>

\* Faulty variant of GenerationFailureReply: an empty candidate.
GenerationFailureReply_empty == <<>>

\* What possible_query becomes when the query-phase call raises.
GenerationFailureReply == NO_SPARQL

\* Arguments of the query-phase call.
QueryCallArgs(r) ==
    [system |-> create_system_prompt_for_sparql(ontology_turtle[r]),
     user |-> user_message[r],
     max_tokens |-> QueryMaxTokens,
     temperature |-> QueryTemperature]

\* The query-phase call; a failure counts as the reply "NO_SPARQL".
GenerateQuery(r) ==
    /\ pc[r] = "generate_query"
    /\ \/ \E content \in Replies.query_contents :
            /\ possible_query' = [possible_query EXCEPT ![r] = Strip(content)]
            /\ calls' = [calls EXCEPT ![r] =
                            Append(@, Call("generate", QueryCallArgs(r), TRUE))]
       \/ /\ possible_query' = [possible_query EXCEPT ![r] =
                                    GenerationFailureReply]
          /\ calls' = [calls EXCEPT ![r] =
                          Append(@, Call("generate", QueryCallArgs(r), FALSE))]
    /\ pc' = [pc EXCEPT ![r] = "resolve_query"]
    /\ UNCHANGED <<replies, process_vars, stanze_vars, user_message, max_tokens, temperature, ontology_turtle,
                   generated_query, results, point, second_prompt,
                   final_answer, question_lang, answer_lang, final_ans,
                   outcome, response>>

\* Faulty variant of IsSentinel: the test is case-sensitive.
IsSentinel_caseSensitive(q) == StartsWith(q, NO_SPARQL)

\* possible_query.upper().startswith("NO_SPARQL")
IsSentinel(q) == StartsWith(Upper(q), NO_SPARQL)

\* Faulty variant of AcceptedQuery: the raw candidate is kept.
AcceptedQuery_raw(raw, corrected) == Some(raw)

\* generated_query when the validator accepts: the repaired text.
AcceptedQuery(raw, corrected) == Some(corrected)

\* Faulty variant of ResolveQuery: a rejected candidate is generated again.
ResolveQuery_retry(r) ==
    /\ pc[r] = "resolve_query"
    /\ IF IsSentinel(possible_query[r])
       THEN /\ generated_query' = [generated_query EXCEPT ![r] = None]
            /\ pc' = [pc EXCEPT ![r] = "run_query"]
            /\ UNCHANGED calls
       ELSE LET advanced_corrected ==
                    correct_sparql_syntax_advanced(possible_query[r])
            IN  \E parse_ok \in BOOLEAN :
                  /\ generated_query' = [generated_query EXCEPT ![r] =
                        IF is_sparql_query_valid(parse_ok)
                        THEN AcceptedQuery(possible_query[r], advanced_corrected)
                        ELSE None]
                  /\ pc' = [pc EXCEPT ![r] =
                        IF parse_ok THEN "run_query" ELSE "generate_query"]
                  /\ calls' = [calls EXCEPT ![r] =
                        @ \o <<Call("repair", possible_query[r], TRUE),
                               Call("validate", advanced_corrected, parse_ok)>>]
    /\ UNCHANGED <<replies, process_vars, stanze_vars, user_message, max_tokens, temperature, ontology_turtle,
                   possible_query, results, point, second_prompt,
                   final_answer, question_lang, answer_lang, final_ans,
                   outcome, response>>

\* The sentinel test, then repair and validation of the candidate.
ResolveQuery(r) ==
    /\ pc[r] = "resolve_query"
    /\ IF IsSentinel(possible_query[r])
       THEN /\ generated_query' = [generated_query EXCEPT ![r] = None]
            /\ UNCHANGED calls
       ELSE LET advanced_corrected ==
                    correct_sparql_syntax_advanced(possible_query[r])
            IN  \E parse_ok \in BOOLEAN :
                  /\ generated_query' = [generated_query EXCEPT ![r] =
                        IF is_sparql_query_valid(parse_ok)
                        THEN AcceptedQuery(possible_query[r], advanced_corrected)
                        ELSE None]
                  /\ calls' = [calls EXCEPT ![r] =
                        @ \o <<Call("repair", possible_query[r], TRUE),
                               Call("validate", advanced_corrected, parse_ok)>>]
    /\ pc' = [pc EXCEPT ![r] = "run_query"]
    /\ UNCHANGED <<replies, process_vars, stanze_vars, user_message, max_tokens, temperature, ontology_turtle,
                   possible_query, results, point, second_prompt,
                   final_answer, question_lang, answer_lang, final_ans,
                   outcome, response>>

\* Faulty variant of RunQuery: a failure of the store is not caught.
RunQuery_uncaught(r) ==
    /\ pc[r] = "run_query"
    /\ point' = [point EXCEPT ![r] = <<>>]
    /\ IF Truthy(generated_query[r])
       THEN \/ \E rows \in Replies.result_sets :
                 /\ results' = [results EXCEPT ![r] = rows]
                 /\ calls' = [calls EXCEPT ![r] =
                       Append(@, Call("query", generated_query[r].text, TRUE))]
                 /\ pc' = [pc EXCEPT ![r] = "build_prompt"]
                 /\ UNCHANGED outcome
            \/ /\ results' = [results EXCEPT ![r] = <<>>]
               /\ calls' = [calls EXCEPT ![r] =
                     Append(@, Call("query", generated_query[r].text, FALSE))]
               /\ pc' = [pc EXCEPT ![r] = "done"]
               /\ outcome' = [outcome EXCEPT ![r] = "Exception"]
       ELSE /\ results' = [results EXCEPT ![r] = <<>>]
            /\ pc' = [pc EXCEPT ![r] = "build_prompt"]
            /\ UNCHANGED <<calls, outcome>>
    /\ UNCHANGED <<replies, process_vars, stanze_vars, user_message, max_tokens, temperature, ontology_turtle,
                   possible_query, generated_query, second_prompt,
                   final_answer, question_lang, answer_lang, final_ans,
                   response>>

\* results = [], point = "", then ontology_graph.query when there is a query;
\* a failure of the store counts as no rows.
RunQuery(r) ==
    /\ pc[r] = "run_query"
    /\ point' = [point EXCEPT ![r] = <<>>]
    /\ IF Truthy(generated_query[r])
       THEN \/ \E rows \in Replies.result_sets :
                 /\ results' = [results EXCEPT ![r] = rows]
                 /\ calls' = [calls EXCEPT ![r] =
                       Append(@, Call("query", generated_query[r].text, TRUE))]
            \/ /\ results' = [results EXCEPT ![r] = <<>>]
               /\ calls' = [calls EXCEPT ![r] =
                     Append(@, Call("query", generated_query[r].text, FALSE))]
       ELSE /\ results' = [results EXCEPT ![r] = <<>>]
            /\ UNCHANGED calls
    /\ pc' = [pc EXCEPT ![r] = "build_prompt"]
    /\ UNCHANGED <<replies, process_vars, stanze_vars, user_message, max_tokens, temperature, ontology_turtle,
                   possible_query, generated_query, second_prompt,
                   final_answer, question_lang, answer_lang, final_ans,
                   outcome, response>>

\* Faulty variant of BuildPrompt: point is one variable of the module, shared
\* by the requests in flight.
BuildPrompt_sharedPoint(r) ==
    /\ pc[r] = "build_prompt"
    /\ point' = [q \in Requests |->
          IF PromptVariant(generated_query[r], results[r]) = "results"
          THEN ExtractPoint(results[r]) ELSE point[r]]
    /\ second_prompt' = [second_prompt EXCEPT ![r] =
          SecondPrompt(user_message[r], generated_query[r], results[r])]
    /\ pc' = [pc EXCEPT ![r] = "generate_answer"]
    /\ UNCHANGED <<replies, process_vars, stanze_vars, user_message, max_tokens, temperature, ontology_turtle,
                   possible_query, generated_query, results, final_answer,
                   question_lang, answer_lang, final_ans, outcome, response,
                   calls>>

\* The three-way choice of the answer prompt; the point is extracted in the
\* branch with rows only.
BuildPrompt(r) ==
    /\ pc[r] = "build_prompt"
    /\ point' = [point EXCEPT ![r] =
          IF PromptVariant(generated_query[r], results[r]) = "results"
          THEN ExtractPoint(results[r]) ELSE @]
    /\ second_prompt' = [second_prompt EXCEPT ![r] =
          SecondPrompt(user_message[r], generated_query[r], results[r])]
    /\ pc' = [pc EXCEPT ![r] = "generate_answer"]
    /\ UNCHANGED <<replies, process_vars, stanze_vars, user_message, max_tokens, temperature, ontology_turtle,
                   possible_query, generated_query, results, final_answer,
                   question_lang, answer_lang, final_ans, outcome, response,
                   calls>>

\* Arguments of the answer-phase call.
AnswerCallArgs(r) ==
    [system |-> second_prompt[r],
     user |-> FinalUserMessage,
     max_tokens |-> AnswerMaxTokens,
     temperature |-> AnswerTemperature]

\* Faulty variant of GenerateAnswer: a failure is absorbed as an empty answer.
GenerateAnswer_absorbed(r) ==
    /\ pc[r] = "generate_answer"
    /\ \/ \E content \in Replies.answer_contents :
            /\ final_answer' = [final_answer EXCEPT ![r] = Strip(content)]
            /\ calls' = [calls EXCEPT ![r] =
                            Append(@, Call("generate", AnswerCallArgs(r), TRUE))]
       \/ /\ final_answer' = [final_answer EXCEPT ![r] = <<>>]
          /\ calls' = [calls EXCEPT ![r] =
                          Append(@, Call("generate", AnswerCallArgs(r), FALSE))]
    /\ pc' = [pc EXCEPT ![r] = "detect_question"]
    /\ UNCHANGED <<replies, process_vars, stanze_vars, user_message, max_tokens, temperature, ontology_turtle,
                   possible_query, generated_query, results, point,
                   second_prompt, question_lang, answer_lang, final_ans,
                   outcome, response>>

\* The answer-phase call; a failure raises HTTPException(500).
GenerateAnswer(r) ==
    /\ pc[r] = "generate_answer"
    /\ \/ \E content \in Replies.answer_contents :
            /\ final_answer' = [final_answer EXCEPT ![r] = Strip(content)]
            /\ calls' = [calls EXCEPT ![r] =
                            Append(@, Call("generate", AnswerCallArgs(r), TRUE))]
            /\ pc' = [pc EXCEPT ![r] = "detect_question"]
            /\ UNCHANGED outcome
       \/ /\ calls' = [calls EXCEPT ![r] =
                          Append(@, Call("generate", AnswerCallArgs(r), FALSE))]
          /\ outcome' = [outcome EXCEPT ![r] = "HTTPException"]
          /\ pc' = [pc EXCEPT ![r] = "done"]
          /\ UNCHANGED final_answer
    /\ UNCHANGED <<replies, process_vars, stanze_vars, user_message, max_tokens, temperature, ontology_turtle,
                   possible_query, generated_query, results, point,
                   second_prompt, question_lang, answer_lang, final_ans,
                   response>>

(***************************************************************************)
(* Steps of classify_and_translate(user_message, final_answer).            *)
(***************************************************************************)

\* Detection of the language of the question, "en" when it fails.
DetectQuestionLang(r) ==
    /\ pc[r] = "detect_question"
    /\ \/ \E label \in Replies.labels :
            /\ question_lang' = [question_lang EXCEPT ![r] = label]
            /\ calls' = [calls EXCEPT ![r] =
                  Append(@, Call("text_classification", user_message[r], TRUE))]
       \/ /\ question_lang' = [question_lang EXCEPT ![r] = QuestionLangFallback]
          /\ calls' = [calls EXCEPT ![r] =
                Append(@, Call("text_classification", user_message[r], FALSE))]
    /\ pc' = [pc EXCEPT ![r] = "detect_answer"]
    /\ UNCHANGED <<replies, process_vars, stanze_vars, user_message, max_tokens, temperature, ontology_turtle,
                   possible_query, generated_query, results, point,
                   second_prompt, final_answer, answer_lang, final_ans,
                   outcome, response>>

\* Detection of the language of the answer, "it" when it fails; equal labels
\* return the answer as it is.
DetectAnswerLang(r) ==
    /\ pc[r] = "detect_answer"
    /\ \/ \E label \in Replies.labels :
            /\ answer_lang' = [answer_lang EXCEPT ![r] = label]
            /\ calls' = [calls EXCEPT ![r] =
                  Append(@, Call("text_classification", final_answer[r], TRUE))]
       \/ /\ answer_lang' = [answer_lang EXCEPT ![r] = AnswerLangFallback]
          /\ calls' = [calls EXCEPT ![r] =
                Append(@, Call("text_classification", final_answer[r], FALSE))]
    /\ IF SameLanguage(question_lang[r], answer_lang'[r])
       THEN /\ final_ans' = [final_ans EXCEPT ![r] = final_answer[r]]
            /\ pc' = [pc EXCEPT ![r] = "respond"]
       ELSE /\ pc' = [pc EXCEPT ![r] = "make_translator"]
            /\ UNCHANGED final_ans
    /\ UNCHANGED <<replies, process_vars, stanze_vars, user_message, max_tokens, temperature, ontology_turtle,
                   possible_query, generated_query, results, point,
                   second_prompt, final_answer, question_lang, outcome,
                   response>>

\* InferenceClient(token=HF_API_KEY, model=translator_model), outside any
\* try: when it raises, the exception leaves assistant_endpoint.
MakeTranslator(r) ==
    /\ pc[r] = "make_translator"
    /\ \E ok \in BOOLEAN :
        /\ calls' = [calls EXCEPT ![r] =
              Append(@, Call("InferenceClient",
                             TranslatorModel(answer_lang[r], question_lang[r]),
                             ok))]
        /\ IF ok
           THEN /\ pc' = [pc EXCEPT ![r] = "translate"]
                /\ UNCHANGED outcome
           ELSE /\ pc' = [pc EXCEPT ![r] = "done"]
                /\ outcome' = [outcome EXCEPT ![r] = "Exception"]
    /\ UNCHANGED <<replies, process_vars, stanze_vars, user_message, max_tokens, temperature, ontology_turtle,
                   possible_query, generated_query, results, point,
                   second_prompt, final_answer, question_lang, answer_lang,
                   final_ans, response>>

\* translator_client.translation(text=model_answer_text), the untranslated
\* answer when it fails.
Translate(r) ==
    /\ pc[r] = "translate"
    /\ \/ \E text \in Replies.translations :
            /\ final_ans' = [final_ans EXCEPT ![r] = text]
            /\ calls' = [calls EXCEPT ![r] =
                  Append(@, Call("translation", final_answer[r], TRUE))]
       \/ /\ final_ans' = [final_ans EXCEPT ![r] = final_answer[r]]
          /\ calls' = [calls EXCEPT ![r] =
                Append(@, Call("translation", final_answer[r], FALSE))]
    /\ pc' = [pc EXCEPT ![r] = "respond"]
    /\ UNCHANGED <<replies, process_vars, stanze_vars, user_message, max_tokens, temperature, ontology_turtle,
                   possible_query, generated_query, results, point,
                   second_prompt, final_answer, question_lang, answer_lang,
                   outcome, response>>

\* The quotes are stripped and the JSON object is returned.
Respond(r) ==
    /\ pc[r] = "respond"
    /\ final_ans' = [final_ans EXCEPT ![r] = StripQuotes(@)]
    /\ response' = [response EXCEPT ![r] =
          [query |-> generated_query[r],
           response |-> StripQuotes(final_ans[r]),
           point |-> point[r]]]
    /\ outcome' = [outcome EXCEPT ![r] = "response"]
    /\ pc' = [pc EXCEPT ![r] = "done"]
    /\ UNCHANGED <<replies, process_vars, stanze_vars, user_message, max_tokens, temperature, ontology_turtle,
                   possible_query, generated_query, results, point,
                   second_prompt, final_answer, question_lang, answer_lang,
                   calls>>

Next ==
    \E r \in Requests :
        \/ Receive(r)
        \/ Serialize(r)
        \/ GenerateQuery(r)
        \/ ResolveQuery(r)
        \/ RunQuery(r)
        \/ BuildPrompt(r)
        \/ GenerateAnswer(r)
        \/ DetectQuestionLang(r)
        \/ DetectAnswerLang(r)
        \/ MakeTranslator(r)
        \/ Translate(r)
        \/ Respond(r)

Spec == Init /\ [][Next]_vars

\* query_stanze_endpoint up to the validation: the fixed query is repaired
\* and validated; a rejection ends the request with status 400.
PrepareStanze ==
    /\ stanze_pc = "idle"
    /\ corrected_query' = correct_sparql_syntax_advanced(StanzeQuery)
    /\ \E parse_ok \in BOOLEAN :
          IF is_sparql_query_valid(parse_ok)
          THEN /\ stanze_pc' = "query"
               /\ UNCHANGED stanze_outcome
          ELSE /\ stanze_pc' = "done"
               /\ stanze_outcome' = "HTTPException(400)"
    /\ UNCHANGED <<replies, process_vars, query_result, stanze_list, pc,
                   user_message, max_tokens, temperature, ontology_turtle,
                   possible_query, generated_query, results, point,
                   second_prompt, final_answer, question_lang, answer_lang,
                   final_ans, outcome, response, calls>>

\* The store query and the grouping of its rows; any failure in them ends
\* the request with status 500.
RunStanze ==
    /\ stanze_pc = "query"
    /\ \/ \E rows \in StanzeResultSets :
            /\ query_result' = rows
            /\ stanze_list' = GroupRows(rows)
            /\ stanze_outcome' = "response"
       \/ /\ stanze_outcome' = "HTTPException(500)"
          /\ UNCHANGED <<query_result, stanze_list>>
    /\ stanze_pc' = "done"
    /\ UNCHANGED <<replies, process_vars, corrected_query, pc,
                   user_message, max_tokens, temperature, ontology_turtle,
                   possible_query, generated_query, results, point,
                   second_prompt, final_answer, question_lang, answer_lang,
                   final_ans, outcome, response, calls>>

NextStanze == PrepareStanze \/ RunStanze

\* The rooms interface alone: no assistant request arrives.
InitStanze ==
    /\ replies = "all"
    /\ Startup
    /\ StanzeStart
    /\ pc = [r \in Requests |-> "absent"]
    /\ user_message = [r \in Requests |-> <<>>]
    /\ max_tokens = [r \in Requests |-> DefaultMaxTokens]
    /\ temperature = [r \in Requests |-> DefaultTemperature]
    /\ ontology_turtle = [r \in Requests |-> <<>>]
    /\ possible_query = [r \in Requests |-> <<>>]
    /\ generated_query = [r \in Requests |-> None]
    /\ results = [r \in Requests |-> <<>>]
    /\ point = [r \in Requests |-> <<>>]
    /\ second_prompt = [r \in Requests |-> NoPrompt]
    /\ final_answer = [r \in Requests |-> <<>>]
    /\ question_lang = [r \in Requests |-> <<>>]
    /\ answer_lang = [r \in Requests |-> <<>>]
    /\ final_ans = [r \in Requests |-> <<>>]
    /\ outcome = [r \in Requests |-> "pending"]
    /\ response = [r \in Requests |-> NoResponse]
    /\ calls = [r \in Requests |-> <<>>]

SpecStanze == InitStanze /\ [][NextStanze]_vars

\* The first request arrives in a run with the scan result sets.
InitScan ==
    /\ replies = "scan"
    /\ Startup
    /\ StanzeStart
    /\ pc = [r \in Requests |-> IF r = 1 THEN "idle" ELSE "absent"]
    /\ user_message = [r \in Requests |-> <<>>]
    /\ max_tokens = [r \in Requests |-> DefaultMaxTokens]
    /\ temperature = [r \in Requests |-> DefaultTemperature]
    /\ ontology_turtle = [r \in Requests |-> <<>>]
    /\ possible_query = [r \in Requests |-> <<>>]
    /\ generated_query = [r \in Requests |-> None]
    /\ results = [r \in Requests |-> <<>>]
    /\ point = [r \in Requests |-> <<>>]
    /\ second_prompt = [r \in Requests |-> NoPrompt]
    /\ final_answer = [r \in Requests |-> <<>>]
    /\ question_lang = [r \in Requests |-> <<>>]
    /\ answer_lang = [r \in Requests |-> <<>>]
    /\ final_ans = [r \in Requests |-> <<>>]
    /\ outcome = [r \in Requests |-> "pending"]
    /\ response = [r \in Requests |-> NoResponse]
    /\ calls = [r \in Requests |-> <<>>]

SpecScan == InitScan /\ [][Next]_vars

\* The state before any request of the set live has been handled, with the
\* replies rep of the collaborators.
Start(rep, live) ==
    /\ replies = rep
    /\ Startup
    /\ StanzeStart
    /\ pc = [r \in Requests |-> IF r \in live THEN "idle" ELSE "absent"]
    /\ user_message = [r \in Requests |-> <<>>]
    /\ max_tokens = [r \in Requests |-> DefaultMaxTokens]
    /\ temperature = [r \in Requests |-> DefaultTemperature]
    /\ ontology_turtle = [r \in Requests |-> <<>>]
    /\ possible_query = [r \in Requests |-> <<>>]
    /\ generated_query = [r \in Requests |-> None]
    /\ results = [r \in Requests |-> <<>>]
    /\ point = [r \in Requests |-> <<>>]
    /\ second_prompt = [r \in Requests |-> NoPrompt]
    /\ final_answer = [r \in Requests |-> <<>>]
    /\ question_lang = [r \in Requests |-> <<>>]
    /\ answer_lang = [r \in Requests |-> <<>>]
    /\ final_ans = [r \in Requests |-> <<>>]
    /\ outcome = [r \in Requests |-> "pending"]
    /\ response = [r \in Requests |-> NoResponse]
    /\ calls = [r \in Requests |-> <<>>]

\* Two requests in flight at once, each handled by its own thread.
InitConcurrent == Start("concurrent", {1, 2})

SpecConcurrent == InitConcurrent /\ [][Next]_vars

\* One request whose candidate query is any text of RepairInputs.
InitRepair == Start("repair", {1})

SpecRepair == InitRepair /\ [][Next]_vars

\* One request whose candidate query is any text of PrefixInputs.
InitPrefix == Start("prefix", {1})

SpecPrefix == InitPrefix /\ [][Next]_vars

\* One request whose candidate query is any text of WhereInputs.
InitWhere == Start("where", {1})

SpecWhere == InitWhere /\ [][Next]_vars

\* One request whose answers carry quotes and escaped quotes.
InitQuotes == Start("quotes", {1})

SpecQuotes == InitQuotes /\ [][Next]_vars

(***************************************************************************)
(* Properties.                                                             *)
(***************************************************************************)

\* Positions of the calls of request r to op.
CallsTo(r, op) == {i \in 1..Len(calls[r]) : calls[r][i].op = op}

\* Positions of the calls to the generation service, by phase.
QueryPhaseCalls(r) ==
    {i \in CallsTo(r, "generate") : calls[r][i].arg.system.kind = "sparql"}

AnswerPhaseCalls(r) ==
    {i \in CallsTo(r, "generate") : calls[r][i].arg.system.kind = "guide"}

\* The call of request r made last was a call to op.
LastCallIs(r, op) ==
    Len(calls[r]) > 0 /\ calls[r][Len(calls[r])].op = op

\* Request r returned its JSON object.
Responded(r) == outcome[r] = "response"

\* The validator rejected the repaired candidate of request r.
Rejected(r) == \E i \in CallsTo(r, "validate") : ~calls[r][i].ok

\* The query-phase call of request r raised.
QueryGenerationRaised(r) == \E i \in QueryPhaseCalls(r) : ~calls[r][i].ok

\* The answer-phase call of request r raised.
AnswerGenerationRaised(r) == \E i \in AnswerPhaseCalls(r) : ~calls[r][i].ok

\* The answer prompt of request r has been built.
PromptBuilt(r) == second_prompt[r].variant /= "none"

\* C1: a Response whose query field is absent has the empty string as its
\* point, whatever the services replied.
C1_AbsentQueryEmptyPoint ==
    \A r \in Requests :
        Responded(r) /\ ~response[r].query.present => response[r].point = <<>>

\* C1 witness: a Response without query, after the validator rejected the
\* repaired candidate.
C1_Witness ==
    \E r \in Requests :
        Responded(r) /\ ~response[r].query.present /\ Rejected(r)

\* C2: when the answer-phase call raises, the request ends with the service
\* error and no Response is returned, whatever happened before.
C2_AnswerFailureIsTerminal ==
    \A r \in Requests :
        AnswerGenerationRaised(r) =>
            /\ pc[r] = "done"
            /\ outcome[r] = "HTTPException"
            /\ response[r] = NoResponse

\* C2 witness: the answer-phase call raised after a query was executed and
\* returned rows.
C2_Witness ==
    \E r \in Requests :
        /\ AnswerGenerationRaised(r)
        /\ results[r] /= <<>>
        /\ outcome[r] = "HTTPException"

\* C3 as stated: a finished request whose answer-phase call returned has a
\* Response, and an error outcome occurs only when the answer-phase call
\* raised.
C3_ErrorOnlyFromAnswerGeneration ==
    \A r \in Requests :
        /\ (pc[r] = "done" /\ AnswerPhaseCalls(r) /= {}
                /\ ~AnswerGenerationRaised(r)) => Responded(r)
        /\ outcome[r] \in {"HTTPException", "Exception"} =>
                AnswerGenerationRaised(r)

\* C4: the store is queried only right after the validator accepted the
\* repaired candidate, with the repaired text, which is also the query of the
\* Response; after a rejection there is no store query, the Response has no
\* query and the answer-phase call is still made.
C4_StoreGetsRepairedText ==
    \A r \in Requests :
        /\ \A i \in CallsTo(r, "query") :
              /\ i > 1
              /\ calls[r][i - 1].op = "validate"
              /\ calls[r][i - 1].ok
              /\ calls[r][i].arg = calls[r][i - 1].arg
        /\ LastCallIs(r, "query") =>
              calls[r][Len(calls[r])].arg =
                  correct_sparql_syntax_advanced(possible_query[r])
        /\ \A i \in CallsTo(r, "query") :
              Responded(r) => response[r].query = Some(calls[r][i].arg)
        /\ Rejected(r) =>
              /\ CallsTo(r, "query") = {}
              /\ Responded(r) => response[r].query = None
              /\ pc[r] = "done" => AnswerPhaseCalls(r) /= {}

\* C4 witness: a Response whose query was sent to the store and differs from
\* the raw candidate.
C4_Witness ==
    \E r \in Requests :
        /\ Responded(r)
        /\ CallsTo(r, "query") /= {}
        /\ response[r].query.text /= possible_query[r]

\* C5: per request there is exactly one query-phase call, at most one
\* answer-phase call, at most one store query, at most one detection for the
\* question and one for the answer, and at most one translation.
C5_NoCallRepeated ==
    \A r \in Requests :
        /\ Cardinality(QueryPhaseCalls(r)) <= 1
        /\ pc[r] \notin {"absent", "idle", "serialize", "generate_query"} =>
              Cardinality(QueryPhaseCalls(r)) = 1
        /\ Cardinality(AnswerPhaseCalls(r)) <= 1
        /\ Cardinality(CallsTo(r, "query")) <= 1
        /\ Cardinality(CallsTo(r, "text_classification")) <= 2
        /\ \A i, j \in CallsTo(r, "text_classification") :
              i < j => /\ calls[r][i].arg = user_message[r]
                       /\ calls[r][j].arg = final_answer[r]
        /\ Cardinality(CallsTo(r, "translation")) <= 1
        /\ Cardinality(CallsTo(r, "InferenceClient")) <= 1
        /\ Cardinality(CallsTo(r, "serialize")) <= 1

\* C5 witness: a finished request in which the validator rejected the
\* candidate and the translation failed.
C5_Witness ==
    \E r \in Requests :
        /\ pc[r] = "done"
        /\ Rejected(r)
        /\ \E i \in CallsTo(r, "translation") : ~calls[r][i].ok

\* C6: when the query-phase call raises, the request goes on as after the
\* sentinel: no repair, no validation, no store query, the no-query prompt,
\* the answer-phase call, and a Response without query.
C6_QueryFailureIsNoQuery ==
    \A r \in Requests :
        QueryGenerationRaised(r) =>
            /\ CallsTo(r, "repair") = {}
            /\ CallsTo(r, "validate") = {}
            /\ CallsTo(r, "query") = {}
            /\ outcome[r] = "pending" => pc[r] /= "done"
            /\ PromptBuilt(r) => second_prompt[r].variant = "no_query"
            /\ pc[r] = "done" => AnswerPhaseCalls(r) /= {}
            /\ Responded(r) => response[r].query = None

\* C6 witness: a Response of a request whose query-phase call raised.
C6_Witness ==
    \E r \in Requests : QueryGenerationRaised(r) /\ Responded(r)

\* q starts with the letters of NO_SPARQL, each in either case.
SentinelInAnyCase(q) ==
    /\ Len(q) >= Len(NO_SPARQL)
    /\ \A k \in 1..Len(NO_SPARQL) :
          \/ q[k] = NO_SPARQL[k]
          \/ \E n \in 1..26 :
                UpperLetters[n] = NO_SPARQL[k] /\ LowerLetters[n] = q[k]

\* C7: when the trimmed query-phase reply starts with NO_SPARQL in any
\* letter case, repair, validator and store are not invoked and the Response
\* has no query and an empty point.
C7_SentinelAnyCase ==
    \A r \in Requests :
        (/\ pc[r] \notin {"absent", "idle", "serialize", "generate_query",
                          "resolve_query"}
         /\ SentinelInAnyCase(possible_query[r])) =>
            /\ CallsTo(r, "repair") = {}
            /\ CallsTo(r, "validate") = {}
            /\ CallsTo(r, "query") = {}
            /\ generated_query[r] = None
            /\ Responded(r) =>
                  response[r].query = None /\ response[r].point = <<>>

\* C7 witness: a Response after a reply in lower case with trailing text.
C7_Witness ==
    \E r \in Requests :
        /\ Responded(r)
        /\ SentinelInAnyCase(possible_query[r])
        /\ possible_query[r] /= NO_SPARQL
        /\ ~QueryGenerationRaised(r)

\* C8: when the executed query has no rows, because the store returned none
\* or because it raised, the request goes on, the answer prompt is the
\* no-results variant, and the Response carries the query and an empty point.
C8_NoRowsKeepsQuery ==
    \A r \in Requests :
        (CallsTo(r, "query") /= {} /\ results[r] = <<>>) =>
            /\ LastCallIs(r, "query") =>
                  /\ pc[r] \in {"build_prompt", "generate_answer"}
                  /\ outcome[r] = "pending"
            /\ PromptBuilt(r) => second_prompt[r].variant = "no_results"
            /\ Responded(r) =>
                  /\ response[r].query.present
                  /\ \A i \in CallsTo(r, "query") :
                        response[r].query.text = calls[r][i].arg
                  /\ response[r].point = <<>>

\* C8 witness: a Response after the store raised.
C8_Witness ==
    \E r \in Requests :
        /\ Responded(r)
        /\ \E i \in CallsTo(r, "query") : ~calls[r][i].ok

\* C9: the answer prompt is the results variant when a query was executed
\* and has rows, the no-results variant when it was executed and has none,
\* the no-query variant when none was executed; rows without an executed
\* query do not occur.
C9_PromptVariantByQueryAndRows ==
    \A r \in Requests :
        /\ ~(CallsTo(r, "query") = {} /\ results[r] /= <<>>)
        /\ PromptBuilt(r) =>
              /\ second_prompt[r].variant \in
                    {"results", "no_results", "no_query"}
              /\ second_prompt[r].variant = "results" <=>
                    (CallsTo(r, "query") /= {} /\ results[r] /= <<>>)
              /\ second_prompt[r].variant = "no_results" <=>
                    (CallsTo(r, "query") /= {} /\ results[r] = <<>>)
              /\ second_prompt[r].variant = "no_query" <=>
                    CallsTo(r, "query") = {}

\* C9 witness: the results variant was built and answered.
C9_Witness ==
    \E r \in Requests :
        /\ Responded(r)
        /\ second_prompt[r].variant = "results"

\* C10 as stated: the answer-phase call carries the temperature and the
\* max-token budget of the request, and the query-phase call a fixed
\* temperature.
C10_AnswerCallUsesRequestParameters ==
    \A r \in Requests :
        /\ \A i \in AnswerPhaseCalls(r) :
              /\ calls[r][i].arg.temperature = temperature[r]
              /\ calls[r][i].arg.max_tokens = max_tokens[r]
        /\ \A i \in QueryPhaseCalls(r) :
              calls[r][i].arg.temperature = QueryTemperature

\* Row binds var to a value that is not blank.
Binds(row, var) ==
    /\ var \in DOMAIN row
    /\ row[var].bound
    /\ \E k \in 1..Len(row[var].str) : row[var].str[k] \notin Whitespace

\* Indices of the rows of request r that bind var to a value.
RowsBinding(r, var) ==
    {i \in 1..Len(results[r]) : Binds(results[r][i], var)}

\* The trimmed value of var in the first row of request r that binds it.
FirstBinding(r, var) ==
    Strip(results[r][Min(RowsBinding(r, var))][var].str)

\* C11 as stated: whenever some row binds "p", the point is the "p" of the
\* first such row, also when an earlier row binds only "posizione"; a
\* "posizione" value is returned only when no row binds "p".
C11_PointPrefersAnyP ==
    \A r \in Requests :
        (PromptBuilt(r) /\ RowsBinding(r, "p") /= {}) =>
            point[r] = FirstBinding(r, "p")

\* C12: when the first row of an executed query binds "p", the point of the
\* Response is that value, trimmed, whatever the later rows carry.
C12_FirstRowPWins ==
    \A r \in Requests :
        (PromptBuilt(r) /\ results[r] /= <<>> /\ Binds(results[r][1], "p")) =>
            /\ point[r] = Strip(results[r][1]["p"].str)
            /\ Responded(r) => response[r].point = Strip(results[r][1]["p"].str)

\* C12 witness: a Response for two rows that both bind "p" and "posizione".
C12_Witness ==
    \E r \in Requests :
        /\ Responded(r)
        /\ Len(results[r]) >= 2
        /\ \A i \in 1..2 :
              Binds(results[r][i], "p") /\ Binds(results[r][i], "posizione")

\* C13: when no row binds "p", the point of the Response is the trimmed
\* "posizione" of the first row that binds it, and empty when no row does.
C13_PosizioneWhenNoP ==
    \A r \in Requests :
        (PromptBuilt(r) /\ CallsTo(r, "query") /= {}
             /\ RowsBinding(r, "p") = {}) =>
            LET expected ==
                    IF RowsBinding(r, "posizione") = {} THEN <<>>
                    ELSE FirstBinding(r, "posizione")
            IN  /\ point[r] = expected
                /\ Responded(r) => response[r].point = expected

\* C13 witness: a Response for rows without "p" whose first row has a blank
\* "posizione" and whose second row binds it.
C13_Witness ==
    \E r \in Requests :
        /\ Responded(r)
        /\ Len(results[r]) >= 2
        /\ RowsBinding(r, "p") = {}
        /\ "posizione" \in DOMAIN results[r][1]
        /\ results[r][1]["posizione"].bound
        /\ RowsBinding(r, "posizione") = {2}

\* Position of the call that detects the language of the question, and of
\* the one that detects the language of the answer (the first and the second
\* classification).
QuestionDetection(r) ==
    {i \in CallsTo(r, "text_classification") :
        \A j \in CallsTo(r, "text_classification") : i <= j}

AnswerDetection(r) == CallsTo(r, "text_classification") \ QuestionDetection(r)

\* Both labels of request r are known.
LabelsKnown(r) == AnswerDetection(r) /= {}

\* C14 as stated: classify_and_translate never raises, also when the
\* translation service for the pair cannot be obtained or fails, and after a
\* failed translation it returns the untranslated answer.
C14_NormalizerNeverRaises ==
    \A r \in Requests :
        /\ outcome[r] /= "Exception"
        /\ (pc[r] = "done" /\ LabelsKnown(r)) => Responded(r)
        /\ (pc[r] = "respond"
                /\ \E i \in CallsTo(r, "translation") : ~calls[r][i].ok) =>
              final_ans[r] = final_answer[r]

\* C15: the translation client is constructed, and the translation called,
\* only when the two labels differ, and it is constructed whenever they
\* differ; with equal labels the answer is returned as it is.
C15_TranslateIffLabelsDiffer ==
    \A r \in Requests :
        /\ (CallsTo(r, "InferenceClient") /= {}
                \/ CallsTo(r, "translation") /= {}
                \/ pc[r] \in {"make_translator", "translate"}) =>
              (LabelsKnown(r) /\ question_lang[r] /= answer_lang[r])
        /\ (LabelsKnown(r) /\ question_lang[r] /= answer_lang[r]) =>
              /\ pc[r] = "make_translator" \/ CallsTo(r, "InferenceClient") /= {}
              /\ (\E i \in CallsTo(r, "InferenceClient") : calls[r][i].ok) =>
                    pc[r] = "translate" \/ CallsTo(r, "translation") /= {}
        /\ (LabelsKnown(r) /\ question_lang[r] = answer_lang[r]) =>
              /\ pc[r] \in {"respond", "done"}
              /\ pc[r] = "respond" => final_ans[r] = final_answer[r]

\* C15 witness: a Response with equal labels, one detected and one a
\* fallback, and no translation client.
C15_Witness ==
    \E r \in Requests :
        /\ Responded(r)
        /\ question_lang[r] = answer_lang[r]
        /\ \E i \in AnswerDetection(r) : ~calls[r][i].ok
        /\ CallsTo(r, "InferenceClient") = {}

\* C16: a failed detection of the question gives "en", a failed detection
\* of the answer gives "it", each whatever the other call did; when both
\* fail the translation from "it" to "en" is attempted.
C16_AsymmetricFallbacks ==
    \A r \in Requests :
        /\ \A i \in QuestionDetection(r) :
              ~calls[r][i].ok => question_lang[r] = <<"e","n">>
        /\ \A i \in AnswerDetection(r) :
              ~calls[r][i].ok => answer_lang[r] = <<"i","t">>
        /\ (/\ \E i \in QuestionDetection(r) : ~calls[r][i].ok
            /\ \E i \in AnswerDetection(r) : ~calls[r][i].ok) =>
              /\ pc[r] = "make_translator" \/ CallsTo(r, "InferenceClient") /= {}
              /\ \A i \in CallsTo(r, "InferenceClient") :
                    calls[r][i].arg =
                        TRANSLATOR_MODEL_PREFIX \o <<"-","i","t","-","e","n">>

\* C16 witness: both detections failed and the translation was called.
C16_Witness ==
    \E r \in Requests :
        /\ \E i \in QuestionDetection(r) : ~calls[r][i].ok
        /\ \E i \in AnswerDetection(r) : ~calls[r][i].ok
        /\ CallsTo(r, "translation") /= {}
        /\ Responded(r)

\* The text t without its double quotes and without the backslash that
\* immediately precedes a double quote; every other character stays, in order.
RECURSIVE UnquotedFrom(_, _)
UnquotedFrom(t, i) ==
    IF i > Len(t) THEN <<>>
    ELSE LET quote == t[i] = "\""
             escape == t[i] = "\\" /\ i < Len(t) /\ t[i + 1] = "\""
         IN  (IF quote \/ escape THEN <<>> ELSE <<t[i]>>)
                 \o UnquotedFrom(t, i + 1)

Unquoted(t) == UnquotedFrom(t, 1)

\* C17: the answer of every Response has no double quote; it is the
\* normalized answer less its quotes and the backslashes that escape them.
C17_NoQuotesInAnswer ==
    [][\A r \in Requests :
          (pc[r] = "respond" /\ pc'[r] = "done") =>
              /\ response'[r].response = Unquoted(final_ans[r])
              /\ \A i \in 1..Len(response'[r].response) :
                    response'[r].response[i] /= "\""]_vars

\* C17 witness: a Response to an answer, left untranslated, that held an
\* escaped quote, a plain quote and a backslash that escapes nothing.
C17_Witness ==
    \E r \in Requests :
        /\ Responded(r)
        /\ CallsTo(r, "InferenceClient") = {}
        /\ final_answer[r] = <<"\\", "\\", "\"", "\"">>
        /\ response[r].response = <<"\\">>

\* Positions of the calls made for the language normalization of request r.
NormalizationCalls(r) ==
    CallsTo(r, "text_classification") \cup CallsTo(r, "InferenceClient")
        \cup CallsTo(r, "translation")

\* C18: in the sequence of calls of a request the query-phase call returned
\* before the store query, the store query before the answer-phase call,
\* and the detections (the question, then the answer) and the translation
\* come after an answer-phase call that returned.
C18_CallsInFixedOrder ==
    \A r \in Requests :
        /\ \A q \in CallsTo(r, "query") :
              \E g \in QueryPhaseCalls(r) : g < q /\ calls[r][g].ok
        /\ \A a \in AnswerPhaseCalls(r) :
              /\ \E g \in QueryPhaseCalls(r) : g < a
              /\ \A q \in CallsTo(r, "query") : q < a
              /\ \A g \in QueryPhaseCalls(r) : g < a
        /\ \A n \in NormalizationCalls(r) :
              \E a \in AnswerPhaseCalls(r) : a < n /\ calls[r][a].ok
        /\ \A i \in QuestionDetection(r) : calls[r][i].arg = user_message[r]
        /\ \A i \in AnswerDetection(r) : calls[r][i].arg = final_answer[r]
        /\ \A t \in CallsTo(r, "InferenceClient") \cup CallsTo(r, "translation") :
              /\ AnswerDetection(r) /= {}
              /\ \A d \in CallsTo(r, "text_classification") : d < t
        /\ \A t \in CallsTo(r, "translation") :
              \E c \in CallsTo(r, "InferenceClient") : c < t /\ calls[r][c].ok

\* C18 witness: a Response after all the calls: both generations, the store
\* query, both detections and the translation.
C18_Witness ==
    \E r \in Requests :
        /\ Responded(r)
        /\ CallsTo(r, "query") /= {}
        /\ AnswerDetection(r) /= {}
        /\ CallsTo(r, "translation") /= {}

\* Everything a request holds while it is handled: the local variables of
\* its invocation of the handler, and its outcome.
Local(q) ==
    <<pc[q], user_message[q], max_tokens[q], temperature[q],
      ontology_turtle[q], possible_query[q], generated_query[q], results[q],
      point[q], second_prompt[q], final_answer[q], question_lang[q],
      answer_lang[q], final_ans[q], outcome[q], response[q], calls[q]>>

\* C19: no step of a request changes the store or the service handles, and
\* every step changes what one request holds and nothing of any other, in
\* every interleaving of two requests; the Response is made of what the
\* request itself holds.
C19_RequestsIndependent ==
    [][/\ ontology_graph' = ontology_graph
       /\ hf_generation_client' = hf_generation_client
       /\ lang_detect_client' = lang_detect_client
       /\ \E r \in Requests :
             /\ \A q \in Requests \ {r} : Local(q)' = Local(q)
             /\ outcome'[r] = "response" =>
                   /\ response'[r].query = generated_query[r]
                   /\ response'[r].point = point[r]
                   /\ response'[r].response = Unquoted(final_ans[r])]_vars

\* C19 witness: two Responses with different points, the request without
\* point having finished after the other had extracted its point.
C19_Witness ==
    \E r, q \in Requests :
        /\ Responded(r) /\ Responded(q)
        /\ response[r].point = <<"A">>
        /\ response[q].point = <<>>
        /\ response[q].query.present

\* C20 as stated: a second pass of the repair over a repaired query changes
\* nothing; the repaired query is the one handed to the validator.
C20_RepairIdempotent ==
    \A r \in Requests :
        LastCallIs(r, "validate") =>
            LET repaired == calls[r][Len(calls[r])].arg
            IN  correct_sparql_syntax_advanced(repaired) = repaired

\* The declaration of the reserved prefix, as text.
Declaration == SubSeq(PrefixDeclaration, 1, Len(PrefixDeclaration) - 1)

\* Positions of t at which w occurs.
Occurrences(t, w) == {i \in 1..Len(t) : MatchAt(t, i, w)}

\* C21 as stated: the repair of a candidate without the declaration, also
\* of one that writes it with a tab, a line break or several spaces after
\* PREFIX, holds the declaration once, at its start.
C21_PrefixExactlyOnce ==
    \A r \in Requests :
        LastCallIs(r, "validate") =>
            LET repaired == calls[r][Len(calls[r])].arg
            IN  ~Contains(possible_query[r], Declaration) =>
                    Occurrences(repaired, Declaration) = {1}

\* The text of uri after its last '#', or uri when it has none.
Fragment(uri) ==
    IF \E i \in 1..Len(uri) : uri[i] = "#"
    THEN LET last == CHOOSE i \in 1..Len(uri) :
                        /\ uri[i] = "#"
                        /\ \A j \in (i + 1)..Len(uri) : uri[j] /= "#"
         IN  [k \in 1..(Len(uri) - last) |-> uri[last + k]]
    ELSE uri

\* The entry the claim gives to a row.
EntryOf(row) ==
    [nome |-> Fragment(row["opera"]),
     punto |-> IF row["p"] = Unbound THEN <<>> ELSE row["p"].str]

\* The rows of the room named name, in row order, as entries.
RECURSIVE EntriesOfRoom(_, _)
EntriesOfRoom(rows, name) ==
    IF rows = <<>> THEN <<>>
    ELSE (IF Fragment(Head(rows)["stanza"]) = name
          THEN <<EntryOf(Head(rows))>> ELSE <<>>)
             \o EntriesOfRoom(Tail(rows), name)

\* C22: the returned groups have distinct room names, which are the local
\* names of the rooms of the rows, and the entries of a group are the
\* entries of the rows of that room, one per row and in row order.
C22_RoomsGroupRows ==
    stanze_outcome = "response" =>
        /\ \A i, j \in 1..Len(stanze_list) :
              stanze_list[i].roomName = stanze_list[j].roomName => i = j
        /\ {stanze_list[i].roomName : i \in 1..Len(stanze_list)} =
              {Fragment(query_result[k]["stanza"]) : k \in 1..Len(query_result)}
        /\ \A i \in 1..Len(stanze_list) :
              stanze_list[i].entries =
                  EntriesOfRoom(query_result, stanze_list[i].roomName)

\* C22 witness: two rows whose rooms are written differently and have the
\* same local name, a work with two '#', and an unbound position.
C22_Witness ==
    /\ stanze_outcome = "response"
    /\ Len(query_result) = 2
    /\ query_result[1]["stanza"] /= query_result[2]["stanza"]
    /\ Len(stanze_list) = 1
    /\ query_result[2]["opera"] = <<"n","#","x","#","E">>
    /\ query_result[2]["p"] = Unbound
    /\ query_result[1]["p"] /= Unbound

\* C23: the point comes from the first row that binds "p" or "posizione":
\* its "p" when it binds "p", else its "posizione"; rows after it do not
\* count, and without such a row the point is "".
C23_FirstRowWithEitherBinding ==
    \A r \in Requests :
        (PromptBuilt(r) /\ CallsTo(r, "query") /= {}) =>
            LET hits == RowsBinding(r, "p") \cup RowsBinding(r, "posizione")
                row == results[r][Min(hits)]
            IN  point[r] =
                    IF hits = {} THEN <<>>
                    ELSE IF Binds(row, "p") THEN Strip(row["p"].str)
                    ELSE Strip(row["posizione"].str)

\* C23 witness: a Response whose point is the "posizione" of row 1, which
\* has a blank "p", while row 2 binds "p".
C23_Witness ==
    \E r \in Requests :
        /\ Responded(r)
        /\ Len(results[r]) >= 2
        /\ "p" \in DOMAIN results[r][1]
        /\ results[r][1]["p"].bound
        /\ ~Binds(results[r][1], "p")
        /\ Binds(results[r][1], "posizione")
        /\ Binds(results[r][2], "p")
        /\ response[r].point = Strip(results[r][1]["posizione"].str)

\* WHERE, in either case, stands at i in t as a word of its own.
WhereKeywordAt(t, i) ==
    /\ MatchAtIgnoreCase(t, i, <<"W","H","E","R","E">>)
    /\ i = 1 \/ t[i - 1] \notin WordChars
    /\ i + 5 > Len(t) \/ t[i + 5] \notin WordChars

\* Positions of the opening braces of t.
Braces(t) == {i \in 1..Len(t) : t[i] = "{"}

\* The opening braces of t that are the first one after a SELECT and its
\* variables.
ProjectionBraces(t) ==
    {b \in Braces(t) :
        \E i \in 1..Len(t) :
            /\ MatchAtIgnoreCase(t, i, <<"S","E","L","E","C","T">>)
            /\ i + 6 < b
            /\ \A k \in (i + 6)..(b - 1) : t[k] /= "{"
            /\ \E k \in (i + 6)..(b - 1) : t[k] = "?"}

\* C24 as stated: the repair of a candidate with a projection and a brace
\* and without the keyword WHERE, also of one with the letters of WHERE in
\* a variable, has WHERE right before the first brace after the projection and before
\* no other.
C24_WhereBeforeFirstBrace ==
    \A r \in Requests :
        LastCallIs(r, "validate") =>
            LET repaired == calls[r][Len(calls[r])].arg
                candidate == possible_query[r]
            IN  (/\ ProjectionBraces(candidate) /= {}
                 /\ \A i \in 1..Len(candidate) : ~WhereKeywordAt(candidate, i)) =>
                    {b \in Braces(repaired) : WhereKeywordAt(repaired, b - 6)} =
                        {Min(ProjectionBraces(repaired))}

\* C25: the translation client is the one of the model named after the
\* language of the answer and then the language of the question, and its
\* translation is what was called.
C25_TranslatesAnswerToQuestionLanguage ==
    \A r \in Requests :
        /\ \A i \in CallsTo(r, "InferenceClient") :
              /\ answer_lang[r] /= question_lang[r]
              /\ calls[r][i].arg =
                    TRANSLATOR_MODEL_PREFIX \o <<"-">> \o answer_lang[r]
                        \o <<"-">> \o question_lang[r]
        /\ \A i \in CallsTo(r, "translation") :
              /\ calls[r][i - 1].op = "InferenceClient"
              /\ calls[r][i].arg = final_answer[r]

\* C25 witness: a Response after the translation of an answer detected as
\* French for a question detected as English.
C25_Witness ==
    \E r \in Requests :
        /\ Responded(r)
        /\ \E i \in CallsTo(r, "translation") : calls[r][i].ok
        /\ \A i \in CallsTo(r, "text_classification") : calls[r][i].ok
        /\ question_lang[r] = <<"e","n">>
        /\ answer_lang[r] = <<"f","r">>

\* The serialization of the store for request r raised.
SerializationRaised(r) == \E i \in CallsTo(r, "serialize") : ~calls[r][i].ok

\* C26: after a failed serialization the ontology of the request is the
\* empty text, the request goes on to the query-phase call, made with the
\* prompt of the empty ontology and the question, and does not end before
\* the answer-phase call.
C26_SerializationFailureIsEmptyOntology ==
    \A r \in Requests :
        SerializationRaised(r) =>
            /\ ontology_turtle[r] = <<>>
            /\ pc[r] = "generate_query" \/ QueryPhaseCalls(r) /= {}
            /\ \A i \in QueryPhaseCalls(r) :
                  /\ calls[r][i].arg.system = [kind |-> "sparql", ontology |-> <<>>]
                  /\ calls[r][i].arg.user = user_message[r]
            /\ pc[r] = "done" => AnswerPhaseCalls(r) /= {}
            /\ outcome[r] \in {"HTTPException", "Exception"} =>
                  AnswerPhaseCalls(r) /= {}

\* C26 witness: a Response with a query, rows and a point after a failed
\* serialization.
C26_Witness ==
    \E r \in Requests :
        /\ SerializationRaised(r)
        /\ Responded(r)
        /\ response[r].query.present
        /\ results[r] /= <<>>
        /\ response[r].point /= <<>>

====
